---- MODULE Spec2Model ----
(***************************************************************************)
(* Commit-construction and staging pipeline of project-hub-mcp-server.     *)
(*                                                                         *)
(* Two parts share this module:                                            *)
(*   - the remote repository (commits, refs) as seen through the Octokit   *)
(*     Gateway, and the CommitService / BranchService operations that run  *)
(*     against it as interleaved asynchronous invocations;                 *)
(*   - the ProjectManager staging state (state.projects[..].changes) and   *)
(*     the tool handlers that mutate it.                                   *)
(***************************************************************************)
EXTENDS Integers, Sequences, FiniteSets, TLC

VARIABLES
  commits,    \* remote commit objects: sha (index) -> [tree, parents]
  refs,       \* remote branch refs: branch name -> head sha, NoSha when absent
  protected,  \* remote branches with a protection rule
  calls,      \* service invocations in flight or finished, one per slot
  projects,   \* ProjectManager.state.projects: name -> project record or NoProject
  nextId,     \* the change ids handed out so far, plus one (uuidv4 never repeats)
  lastOp,     \* the last staging operation, its arguments and what it returned
  disk,       \* the state file: the projects of the last snapshot written to it
  saving,     \* ProjectManager calls that reached their saveState: slot -> save record
  accounts,   \* ProjectManager.state.accounts: the owners that have an entry
  selectedAccount,  \* ProjectManager.state.selectedAccount, or Undefined
  githubService,    \* the owner the server's githubService is bound to, or Undefined
  instance,   \* DatabaseManager.instance: the instance held, or NoInstance
  constructed,      \* DatabaseManager instances constructed so far
  verified,   \* the instances whose verifyAndCreateTables has completed
  initCalls   \* DatabaseManager.initialize calls made so far: slot -> call record

remote == <<commits, refs, protected>>
staging == <<projects, nextId, lastOp>>
persisted == <<disk, saving>>
github == <<accounts, selectedAccount, githubService>>
database == <<instance, constructed, verified, initCalls>>
host == <<persisted, github, database>>
vars == <<commits, refs, protected, calls, projects, nextId, lastOp, disk, saving, accounts,
          selectedAccount, githubService, instance, constructed, verified, initCalls>>

(***************************************************************************)
(* Bounds of the model.                                                    *)
(***************************************************************************)
NumCalls == 2        \* concurrent callers (each runs one service call at a time)
MaxCommits == 5      \* commit objects the remote store may hold
MaxChanges == 3      \* change records a project may accumulate

(***************************************************************************)
(* Remote data: paths, blobs, trees, commits.                              *)
(***************************************************************************)
Paths == {"f", "g"}
Absent == 0                       \* a path that is not in a tree
Blobs == {1, 2}                   \* blob shas, identified with their content
Trees == [Paths -> Blobs \cup {Absent}]   \* a tree sha is its content (content-addressed)
NoSha == 0
Shas == 1..MaxCommits
BranchNames == {"main", "dev"}
defaultBranch == "main"
Slots == 1..NumCalls

\* The local files createCommit may read: sourcePath -> content (blob).
NoSource == "none"
SourcePaths == {"src1", "src2"}
readFile(sourcePath) == IF sourcePath = "src1" THEN 1 ELSE 2

Operations == {"add", "modify", "delete"}
Change(p, o, s) == [path |-> p, operation |-> o, sourcePath |-> s]

\* The change lists a caller passes: none, one operation (a modification, a
\* removal, an add without sourcePath), or two (a modification and a new file).
ChangeLists ==
  { <<>>,
    <<Change("f", "modify", "src2")>>,
    <<Change("f", "delete", NoSource)>>,
    <<Change("g", "add", NoSource)>>,
    <<Change("f", "modify", "src2"), Change("g", "add", "src1")>> }

RootTree == [p \in Paths |-> IF p = "f" THEN 1 ELSE Absent]
RootCommit == [tree |-> RootTree, parents |-> <<>>]

Exists(sha) == sha \in DOMAIN commits

RECURSIVE Ancestors(_)
\* The commits reachable from sha through parent links, sha included.
Ancestors(sha) ==
  IF ~Exists(sha) THEN {}
  ELSE {sha} \cup UNION { Ancestors(commits[sha].parents[i]) : i \in DOMAIN commits[sha].parents }

(***************************************************************************)
(* Errors. A thrown error is a record; NoErr stands for "nothing thrown".  *)
(***************************************************************************)
NoErr == [class |-> "none", code |-> "none", status |-> 0, rateLimit |-> FALSE]
ApiErr(status) == [class |-> "RequestError", code |-> "none", status |-> status, rateLimit |-> FALSE]
PlainError == [class |-> "Error", code |-> "none", status |-> 0, rateLimit |-> FALSE]
GitHubError(code, status) == [class |-> "GitHubError", code |-> code, status |-> status, rateLimit |-> FALSE]

GitHubErrorClasses ==
  {"GitHubError", "UnauthorizedError", "RateLimitError", "RepositoryNotFoundError", "BranchNotFoundError"}

\* handleApiError that rethrows what it caught instead of wrapping it.
handleApiErrorRethrow(error, repoContext) == error

\* BaseGitHubService.handleApiError: what it throws for `error` in a context that
\* does (repoContext) or does not name "repository owner/repo".
handleApiError(error, repoContext) ==
  IF error.class \in GitHubErrorClasses THEN error
  ELSE IF error.status = 401 THEN [class |-> "UnauthorizedError", code |-> "UNAUTHORIZED", status |-> 401, rateLimit |-> FALSE]
  ELSE IF error.status = 403 /\ error.rateLimit THEN [class |-> "RateLimitError", code |-> "RATE_LIMIT", status |-> 403, rateLimit |-> FALSE]
  ELSE IF error.status = 404 /\ repoContext THEN [class |-> "RepositoryNotFoundError", code |-> "REPO_NOT_FOUND", status |-> 404, rateLimit |-> FALSE]
  ELSE GitHubError("API_ERROR", error.status)

(***************************************************************************)
(* Invocations. Each caller runs one service call at a time; between two   *)
(* awaits of a call the other callers may take steps (no local locking).   *)
(***************************************************************************)
IdleCall ==
  [op |-> "idle", pc |-> "idle", branch |-> defaultBranch, changes |-> <<>>,
   from |-> defaultBranch, protection |-> FALSE, conflicted |-> FALSE,
   target |-> NoSha, latestCommit |-> NoSha, tree |-> RootTree, sha |-> NoSha,
   result |-> "none", err |-> NoErr,
   attempts |-> 0,      \* updateRef requests issued by the call
   refReads |-> 0,      \* getRef requests issued by the call
   seen |-> NoSha,      \* head the Gateway held when it processed the updateRef
   fault |-> FALSE,     \* ended by a Gateway fault unrelated to the ref protocol
   lostTo |-> NoSha,    \* a re-run: the head that made the first run's updateRef fail
   gateway |-> FALSE,   \* the call has issued a request to the Gateway
   merged |-> FALSE,    \* mergeBranches: the `merged` of the result
   status |-> 0]        \* getBranch: the status of the Gateway's answer

InFlight(c) == calls[c].op # "idle" /\ calls[c].pc # "done"
Done(c) == calls[c].pc = "done"
Failed(c) == Done(c) /\ calls[c].result = "error"
Succeeded(c) == Done(c) /\ calls[c].result = "ok"

\* A call other than createCommit ends: what its caller gets is what it
\* returned (the sha of the commit or ref it made) or what it threw.
Return(call, result, err, sha) ==
  [IdleCall EXCEPT !.op = call.op, !.pc = "done", !.gateway = call.gateway,
                   !.result = result, !.err = err, !.sha = sha]

\* The call of caller c ends by throwing `e`.
Throw(c, e) ==
  [calls EXCEPT ![c] =
     IF calls[c].op = "createCommit"
     THEN [calls[c] EXCEPT !.pc = "done", !.result = "error", !.err = e,
                           !.tree = RootTree, !.latestCommit = NoSha, !.sha = NoSha]
     ELSE Return(calls[c], "error", e, NoSha)]

\* The run's updateRef was rejected although the Gateway had no fault: the ref
\* had moved (or gone) since the run's getRef.
Rejected(call) ==
  call.pc = "done" /\ call.result = "error" /\ call.attempts = 1 /\ ~call.fault

\* options.branch ?? this.defaultBranch
Omitted == "omitted"
ResolveBranch(b) == IF b = Omitted THEN defaultBranch ELSE b

\* Gateway createTree(base_tree, tree): the entries overlaid on the base tree, in
\* order; an entry with sha null removes its path.
RECURSIVE createTree(_, _)
createTree(base, entries) ==
  IF entries = <<>> THEN base
  ELSE createTree([base EXCEPT ![Head(entries).path] = Head(entries).sha], Tail(entries))

\* CommitService.createCommit, the tree entry of one change.
FileOperation(change) ==
  [path |-> change.path,
   sha |-> IF change.operation = "delete" THEN Absent ELSE readFile(change.sourcePath)]

FileOperations(changes) == [i \in DOMAIN changes |-> FileOperation(changes[i])]

\* createCommit without the sourcePath test: every change is read and uploaded.
SourceNeverMissing(changes) == FALSE

\* `Source path required for ... operation`
MissingSource(changes) ==
  \E i \in DOMAIN changes :
    changes[i].operation # "delete" /\ changes[i].sourcePath = NoSource

\* createTree called without base_tree: the entries alone make the tree.
NewTreeWithoutBase(base, changes) ==
  createTree([p \in Paths |-> Absent], FileOperations(changes))

\* The tree createCommit builds: createTree with base_tree = the head's tree.
NewTreeOf(base, changes) == createTree(base, FileOperations(changes))

\* createCommit called without parents.
NoParents(latestCommit) == <<>>

\* parents: [latestCommit]
ParentsOf(latestCommit) == <<latestCommit>>

\* updateRef called with force: true.
UpdateRefForced == TRUE

\* updateRef is called without `force`: the Gateway accepts fast-forwards only.
UpdateRefForce == FALSE

\* updateRef handed the head that was read instead of the new commit.
UpdateRefShaOfHead(call) == call.latestCommit

\* The sha createCommit hands to updateRef: commit.sha.
UpdateRefSha(call) == call.sha

\* A Gateway whose updateRef accepts any existing commit, fast-forward or not.
GatewayAcceptsAnyCommit(branch, sha, force) ==
  /\ refs[branch] # NoSha
  /\ Exists(sha)

\* Gateway updateRef(ref, sha, force): whether the Gateway accepts the update.
GatewayAcceptsUpdate(branch, sha, force) ==
  /\ refs[branch] # NoSha
  /\ Exists(sha)
  /\ (force \/ refs[branch] \in Ancestors(sha))

\* Gateway getRef(heads/name): the head of the branch, none (404) for a name the
\* repository has no branch of, the empty name included.
HeadOf(name) == IF name \in BranchNames THEN refs[name] ELSE NoSha

\* The first await of createCommit: the Gateway answers getRef(heads/branch).
AfterGetRef(call) ==
  IF HeadOf(call.branch) = NoSha
  THEN [call EXCEPT !.pc = "done", !.result = "error", !.refReads = 1, !.gateway = TRUE,
                    !.err = handleApiError(ApiErr(404), FALSE)]
  ELSE [call EXCEPT !.pc = "blobs", !.refReads = 1, !.gateway = TRUE,
                    !.latestCommit = refs[call.branch]]

\* Each caller issues one call. Callers are alike: caller c + 1 calls after
\* caller c has.
MayStart(c) == calls[c].op = "idle" /\ \A d \in Slots : d < c => calls[d].op # "idle"

\* createCommit is called; the Gateway answers its getRef.
CC_GetRef(c, b, changes) ==
  /\ MayStart(c)
  /\ calls' = [calls EXCEPT ![c] =
       AfterGetRef([IdleCall EXCEPT !.op = "createCommit", !.branch = ResolveBranch(b),
                                    !.changes = changes])]
  /\ UNCHANGED <<remote, staging, host>>

\* The caller whose createCommit lost the race re-runs it once from the getRef
\* step, with the same arguments (retry is the caller's, not the service's).
CC_Retry(c) ==
  /\ calls[c].op = "createCommit" /\ Rejected(calls[c])
  /\ calls[c].seen # NoSha /\ calls[c].lostTo = NoSha
  /\ calls' = [calls EXCEPT ![c] =
       AfterGetRef([IdleCall EXCEPT !.op = "createCommit", !.branch = calls[c].branch,
                      !.changes = calls[c].changes, !.lostTo = calls[c].seen])]
  /\ UNCHANGED <<remote, staging, host>>

\* The blobs are created (Promise.all), the base tree is fetched and the new tree
\* is created. None of these is visible to another call.
CC_Blobs(c) ==
  /\ calls[c].op = "createCommit" /\ calls[c].pc = "blobs"
  /\ calls' =
       IF MissingSource(calls[c].changes)
       THEN Throw(c, handleApiError(PlainError, FALSE))
       ELSE [calls EXCEPT ![c].pc = "createCommit",
               ![c].tree = NewTreeOf(commits[calls[c].latestCommit].tree, calls[c].changes)]
  /\ UNCHANGED <<remote, staging, host>>

\* Gateway createCommit(message, tree, parents: [latestCommit]).
CC_CreateCommit(c) ==
  /\ calls[c].op = "createCommit" /\ calls[c].pc = "createCommit"
  /\ Len(commits) < MaxCommits
  /\ commits' = Append(commits, [tree |-> calls[c].tree,
                                 parents |-> ParentsOf(calls[c].latestCommit)])
  /\ calls' = [calls EXCEPT ![c].pc = "updateRef", ![c].sha = Len(commits) + 1,
                            ![c].tree = RootTree]
  /\ UNCHANGED <<refs, protected, staging, host>>

\* Gateway updateRef(heads/branch, commit.sha); on rejection the error goes
\* through handleApiError and the call ends.
CC_UpdateRef(c) ==
  /\ calls[c].op = "createCommit" /\ calls[c].pc = "updateRef"
  /\ LET call == calls[c]
         tried == [call EXCEPT !.attempts = @ + 1, !.seen = refs[call.branch], !.pc = "done"]
     IN  IF GatewayAcceptsUpdate(call.branch, UpdateRefSha(call), UpdateRefForce)
         THEN /\ refs' = [refs EXCEPT ![call.branch] = UpdateRefSha(call)]
              /\ calls' = [calls EXCEPT ![c] = [tried EXCEPT !.result = "ok"]]
         ELSE /\ refs' = refs
              /\ calls' = [calls EXCEPT ![c] = [tried EXCEPT !.result = "error",
                                                  !.err = handleApiError(ApiErr(422), FALSE)]]
  /\ UNCHANGED <<commits, protected, staging, host>>

\* The Gateway request a call is waiting for fails for a reason of its own
\* (credentials, server error); the request has no effect. The services wrap the
\* error in handleApiError, the older GitHubService lets it through.
FaultStatuses == {401, 500}
GatewayFault(c, status) ==
  /\ InFlight(c)
  /\ calls' = [Throw(c, IF calls[c].pc = "legacyCreateRef" THEN ApiErr(status)
                          ELSE handleApiError(ApiErr(status), FALSE)) EXCEPT ![c].fault = TRUE]
  /\ UNCHANGED <<remote, staging, host>>

(***************************************************************************)
(* CommitService.revertCommit.                                             *)
(***************************************************************************)
\* revertCommit is called; the Gateway answers getCommit(sha).
RV_GetCommit(c, sha, b) ==
  /\ MayStart(c)
  /\ LET call == [IdleCall EXCEPT !.op = "revertCommit", !.branch = ResolveBranch(b),
                                  !.target = sha, !.gateway = TRUE]
     IN  calls' = [calls EXCEPT ![c] =
           IF Exists(sha) THEN [call EXCEPT !.pc = "getRef"]
           ELSE Return(call, "error", handleApiError(ApiErr(404), FALSE), NoSha)]
  /\ UNCHANGED <<remote, staging, host>>

\* The Gateway answers getRef(heads/branch).
RV_GetRef(c) ==
  /\ calls[c].op = "revertCommit" /\ calls[c].pc = "getRef"
  /\ calls' =
       IF refs[calls[c].branch] = NoSha
       THEN [calls EXCEPT ![c] = Return(calls[c], "error", handleApiError(ApiErr(404), FALSE), NoSha)]
       ELSE [calls EXCEPT ![c].pc = "createCommit", ![c].refReads = 1,
                          ![c].latestCommit = refs[calls[c].branch]]
  /\ UNCHANGED <<remote, staging, host>>

\* tree: commitToRevert.parents[0].sha -- the sha of the first parent COMMIT is
\* what the call hands to the Gateway as the tree of the new commit.
RevertTreeArg(target) == commits[target].parents[1]

\* Gateway createCommit(message, tree: <a commit sha>, parents: [head]). Handed a
\* commit where a tree is expected, the Gateway either rejects the request (422)
\* or resolves the commit to its tree (peel = TRUE).
RV_CreateCommit(c, peel) ==
  /\ calls[c].op = "revertCommit" /\ calls[c].pc = "createCommit"
  /\ LET call == calls[c] IN
     IF commits[call.target].parents = <<>>
     THEN \* parents[0] is undefined: a TypeError, caught and wrapped
          /\ calls' = [calls EXCEPT ![c] = Return(call, "error", handleApiError(PlainError, FALSE), NoSha)]
          /\ commits' = commits
     ELSE IF ~peel
     THEN /\ calls' = [calls EXCEPT ![c] = Return(call, "error", handleApiError(ApiErr(422), FALSE), NoSha)]
          /\ commits' = commits
     ELSE /\ Len(commits) < MaxCommits
          /\ commits' = Append(commits, [tree |-> commits[RevertTreeArg(call.target)].tree,
                                         parents |-> ParentsOf(call.latestCommit)])
          /\ calls' = [calls EXCEPT ![c].pc = "updateRef", ![c].sha = Len(commits) + 1]
  /\ UNCHANGED <<refs, protected, staging, host>>

\* Gateway updateRef(heads/branch, revertCommit.sha), without force.
RV_UpdateRef(c) ==
  /\ calls[c].op = "revertCommit" /\ calls[c].pc = "updateRef"
  /\ LET call == calls[c] IN
     IF GatewayAcceptsUpdate(call.branch, UpdateRefSha(call), UpdateRefForce)
     THEN /\ refs' = [refs EXCEPT ![call.branch] = UpdateRefSha(call)]
          /\ calls' = [calls EXCEPT ![c] = Return(call, "ok", NoErr, call.sha)]
     ELSE /\ refs' = refs
          /\ calls' = [calls EXCEPT ![c] = Return(call, "error", handleApiError(ApiErr(422), FALSE), NoSha)]
  /\ UNCHANGED <<commits, protected, staging, host>>

\* The older GitHubService.revertCommit(repo, sha): getCommit(sha), then a
\* Gateway createCommit with the tree of that very commit and parents [sha]; no
\* ref is read or moved, and no error is caught. Commits never change, so the two
\* requests are one step.
GH_revertCommit(c, sha) ==
  /\ MayStart(c)
  /\ LET call == [IdleCall EXCEPT !.op = "revertCommit", !.pc = "done", !.target = sha,
                                  !.gateway = TRUE] IN
     IF ~Exists(sha)
     THEN /\ calls' = [calls EXCEPT ![c] = [call EXCEPT !.result = "error", !.err = ApiErr(404)]]
          /\ commits' = commits
     ELSE /\ Len(commits) < MaxCommits
          /\ commits' = Append(commits, [tree |-> commits[sha].tree, parents |-> <<sha>>])
          /\ calls' = [calls EXCEPT ![c] = [call EXCEPT !.result = "ok", !.sha = Len(commits) + 1]]
  /\ UNCHANGED <<refs, protected, staging, host>>

(***************************************************************************)
(* BranchService: createBranch, deleteBranch, mergeBranches.               *)
(***************************************************************************)
EmptyName == ""
\* validateBranch: `!branch || typeof branch !== 'string'`
InvalidBranch(name) == name = EmptyName
InvalidBranchError == GitHubError("INVALID_BRANCH", 400)

\* createBranch is called; after validation the Gateway answers getRef(source).
\* createBranch that reads the head of the default branch whatever fromBranch is.
CB_GetRefFromDefault(c, name, src, protect) ==
  /\ MayStart(c)
  /\ LET call == [IdleCall EXCEPT !.op = "createBranch", !.from = ResolveBranch(src),
                                  !.protection = protect]
     IN  calls' = [calls EXCEPT ![c] =
           IF InvalidBranch(name)
           THEN Return(call, "error", InvalidBranchError, NoSha)
           ELSE IF HeadOf(call.from) = NoSha
           THEN [Return([call EXCEPT !.gateway = TRUE], "error", handleApiError(ApiErr(404), FALSE), NoSha)
                   EXCEPT !.branch = name, !.from = call.from]
           ELSE [call EXCEPT !.branch = name, !.pc = "createRef", !.refReads = 1,
                             !.gateway = TRUE, !.latestCommit = refs[defaultBranch]]]
  /\ UNCHANGED <<remote, staging, host>>

CB_GetRef(c, name, src, protect) ==
  /\ MayStart(c)
  /\ LET call == [IdleCall EXCEPT !.op = "createBranch", !.from = ResolveBranch(src),
                                  !.protection = protect]
     IN  calls' = [calls EXCEPT ![c] =
           IF InvalidBranch(name)
           THEN Return(call, "error", InvalidBranchError, NoSha)
           ELSE IF HeadOf(call.from) = NoSha
           THEN [Return([call EXCEPT !.gateway = TRUE], "error", handleApiError(ApiErr(404), FALSE), NoSha)
                   EXCEPT !.branch = name, !.from = call.from]
           ELSE [call EXCEPT !.branch = name, !.pc = "createRef", !.refReads = 1,
                             !.gateway = TRUE, !.latestCommit = refs[call.from]]]
  /\ UNCHANGED <<remote, staging, host>>

\* createRef that names a sha the store does not hold, taken as it is.
CB_CreateRefUnresolved(c) ==
  /\ calls[c].op = "createBranch" /\ calls[c].pc = "createRef"
  /\ refs' = [refs EXCEPT ![calls[c].branch] = Len(commits) + 1]
  /\ calls' = [calls EXCEPT ![c] = Return(calls[c], "ok", NoErr, Len(commits) + 1)]
  /\ UNCHANGED <<commits, protected, staging, host>>

\* Gateway createRef(refs/heads/name, sha): rejected when the ref exists.
CB_CreateRef(c) ==
  /\ calls[c].op = "createBranch" /\ calls[c].pc = "createRef"
  /\ LET call == calls[c] IN
     IF refs[call.branch] # NoSha \/ ~Exists(call.latestCommit)
     THEN /\ calls' = [calls EXCEPT ![c] = Return(call, "error", handleApiError(ApiErr(422), FALSE), NoSha)]
          /\ refs' = refs
     ELSE /\ refs' = [refs EXCEPT ![call.branch] = call.latestCommit]
          /\ calls' = [calls EXCEPT ![c] =
               IF call.protection THEN [call EXCEPT !.sha = call.latestCommit, !.pc = "protect"]
               ELSE Return(call, "ok", NoErr, call.latestCommit)]
  /\ UNCHANGED <<commits, protected, staging, host>>

\* The older GitHubService.createBranch: getRef(heads/source) with source =
\* sourceBranch || defaultBranch, then createRef(refs/heads/name); no validation
\* and no catch, so the Gateway's errors reach the caller as they are.
LegacySource(sourceBranch) ==
  IF sourceBranch \in {Omitted, EmptyName} THEN defaultBranch ELSE sourceBranch
GH_createBranch_getRef(c, name, sourceBranch) ==
  /\ MayStart(c)
  /\ LET call == [IdleCall EXCEPT !.op = "createBranch", !.from = LegacySource(sourceBranch),
                                  !.branch = name, !.gateway = TRUE]
     IN  calls' = [calls EXCEPT ![c] =
           IF refs[call.from] = NoSha
           THEN [call EXCEPT !.pc = "done", !.result = "error", !.err = ApiErr(404)]
           ELSE [call EXCEPT !.pc = "legacyCreateRef", !.refReads = 1,
                             !.latestCommit = refs[call.from]]]
  /\ UNCHANGED <<remote, staging, host>>
GH_createBranch_createRef(c) ==
  /\ calls[c].op = "createBranch" /\ calls[c].pc = "legacyCreateRef"
  /\ LET call == calls[c] IN
     IF refs[call.branch] # NoSha
     THEN /\ calls' = [calls EXCEPT ![c] = Return(call, "error", ApiErr(422), NoSha)]
          /\ refs' = refs
     ELSE /\ refs' = [refs EXCEPT ![call.branch] = call.latestCommit]
          /\ calls' = [calls EXCEPT ![c] = Return(call, "ok", NoErr, call.latestCommit)]
  /\ UNCHANGED <<commits, protected, staging, host>>

\* updateBranchProtection: the Gateway applies the rule, or refuses (403); a
\* refusal is thrown by updateBranchProtection and again by createBranch.
CB_Protect(c, granted) ==
  /\ calls[c].op = "createBranch" /\ calls[c].pc = "protect"
  /\ IF granted /\ refs[calls[c].branch] # NoSha
     THEN /\ protected' = protected \cup {calls[c].branch}
          /\ calls' = [calls EXCEPT ![c] = Return(calls[c], "ok", NoErr, calls[c].sha)]
     ELSE /\ protected' = protected
          /\ calls' = [calls EXCEPT ![c] = Return(calls[c], "error",
                         handleApiError(handleApiError(ApiErr(403), FALSE), FALSE), NoSha)]
  /\ UNCHANGED <<commits, refs, staging, host>>

CannotDeleteDefault == PlainError

\* deleteBranch: validation, the default-branch guard, then Gateway deleteRef.
DB_Delete(c, b) ==
  /\ MayStart(c)
  /\ LET call == [IdleCall EXCEPT !.op = "deleteBranch", !.pc = "done"] IN
     IF InvalidBranch(b)
     THEN /\ calls' = [calls EXCEPT ![c] = [call EXCEPT !.result = "error", !.err = InvalidBranchError]]
          /\ UNCHANGED <<refs, protected>>
     ELSE IF b = defaultBranch
     THEN /\ calls' = [calls EXCEPT ![c] = [call EXCEPT !.result = "error", !.err = CannotDeleteDefault]]
          /\ UNCHANGED <<refs, protected>>
     ELSE IF refs[b] = NoSha
     THEN /\ calls' = [calls EXCEPT ![c] = [call EXCEPT !.branch = b, !.result = "error",
                                              !.gateway = TRUE,
                                              !.err = handleApiError(ApiErr(422), FALSE)]]
          /\ UNCHANGED <<refs, protected>>
     ELSE /\ refs' = [refs EXCEPT ![b] = NoSha]
          /\ protected' = protected \ {b}
          /\ calls' = [calls EXCEPT ![c] = [call EXCEPT !.branch = b, !.result = "ok",
                                              !.gateway = TRUE]]
  /\ UNCHANGED <<commits, staging, host>>

\* getBranch: validation, then one Gateway getBranch request. The Gateway
\* answers 404 for a branch it does not hold, or fails for a reason of its own
\* (fault: 401, 403 with or without a rate-limit message, 500; 0 for none).
BranchNotFoundError ==
  [class |-> "BranchNotFoundError", code |-> "BRANCH_NOT_FOUND", status |-> 404, rateLimit |-> FALSE]
GetBranchFaults == {0, 401, 403, 500}
\* The catch block without the 404 case.
GetBranchErrorGeneric(error) == handleApiError(error, FALSE)
GetBranchError(error) ==
  IF error.status = 404 THEN BranchNotFoundError ELSE handleApiError(error, FALSE)
GB_getBranch(c, branch, fault, rateLimit) ==
  /\ MayStart(c)
  /\ LET call == [IdleCall EXCEPT !.op = "getBranch", !.pc = "done"]
         asked == [call EXCEPT !.branch = branch, !.gateway = TRUE]
         answer == IF fault # 0 THEN fault ELSE IF HeadOf(branch) = NoSha THEN 404 ELSE 200
     IN  calls' = [calls EXCEPT ![c] =
           IF InvalidBranch(branch)
           THEN [call EXCEPT !.result = "error", !.err = InvalidBranchError]
           ELSE IF answer = 200
           THEN [asked EXCEPT !.status = 200, !.result = "ok", !.sha = refs[branch]]
           ELSE [asked EXCEPT !.status = answer, !.result = "error",
                              !.err = GetBranchError([ApiErr(answer) EXCEPT !.rateLimit = rateLimit])]]
  /\ UNCHANGED <<remote, staging, host>>

\* The older GitHubService.deleteBranch: one Gateway deleteRef(heads/name), no
\* validation, no guard and no catch. The Gateway answers 422 for a ref it does
\* not hold; asked to delete the default branch it may refuse as well.
GH_deleteBranch(c, name, refused) ==
  /\ MayStart(c)
  /\ LET call == [IdleCall EXCEPT !.op = "deleteBranch", !.pc = "done", !.branch = name,
                                  !.gateway = TRUE] IN
     IF refs[name] = NoSha \/ (refused /\ name = defaultBranch)
     THEN /\ calls' = [calls EXCEPT ![c] = [call EXCEPT !.result = "error", !.err = ApiErr(422)]]
          /\ UNCHANGED <<refs, protected>>
     ELSE /\ refs' = [refs EXCEPT ![name] = NoSha]
          /\ protected' = protected \ {name}
          /\ calls' = [calls EXCEPT ![c] = [call EXCEPT !.result = "ok"]]
  /\ UNCHANGED <<commits, staging, host>>

\* Gateway merge: the best common ancestors of two commits.
MergeBases(a, b) ==
  LET common == Ancestors(a) \cap Ancestors(b)
  IN  { x \in common : \A y \in common : x \in Ancestors(y) => y = x }

\* Three-way merge of one path.
MergeConflict(mb, a, b) ==
  \E p \in Paths : /\ commits[a].tree[p] # commits[b].tree[p]
                   /\ commits[a].tree[p] # commits[mb].tree[p]
                   /\ commits[b].tree[p] # commits[mb].tree[p]
MergedTree(mb, a, b) ==
  [p \in Paths |-> IF commits[a].tree[p] = commits[mb].tree[p]
                   THEN commits[b].tree[p] ELSE commits[a].tree[p]]

\* mergeBranches: validation, then one Gateway merge(base, head) request. The
\* Gateway answers 404 for a missing branch, 204 with no body when head is
\* already in base, 409 on a conflict, and otherwise creates the merge commit
\* and moves base to it.
MB_Merge(c, base, head, mb) ==
  /\ MayStart(c)
  /\ LET call == [IdleCall EXCEPT !.op = "mergeBranches", !.pc = "done"] IN
     IF InvalidBranch(head) \/ InvalidBranch(base)
     THEN /\ calls' = [calls EXCEPT ![c] = [call EXCEPT !.result = "error", !.err = InvalidBranchError]]
          /\ UNCHANGED <<commits, refs>>
     ELSE LET named == [call EXCEPT !.branch = base, !.gateway = TRUE] IN
     IF refs[base] = NoSha \/ refs[head] = NoSha
     THEN /\ calls' = [calls EXCEPT ![c] = [named EXCEPT !.result = "error",
                                              !.err = handleApiError(ApiErr(404), FALSE)]]
          /\ UNCHANGED <<commits, refs>>
     ELSE IF refs[head] \in Ancestors(refs[base])
     THEN \* 204: no body, mergeResult.commit.message throws a TypeError
          /\ calls' = [calls EXCEPT ![c] = [named EXCEPT !.result = "error",
                                              !.err = handleApiError(PlainError, FALSE)]]
          /\ UNCHANGED <<commits, refs>>
     ELSE /\ mb \in MergeBases(refs[base], refs[head])
          /\ IF MergeConflict(mb, refs[base], refs[head])
             THEN /\ calls' = [calls EXCEPT ![c] = [named EXCEPT !.result = "ok", !.conflicted = TRUE]]
                  /\ UNCHANGED <<commits, refs>>
             ELSE /\ Len(commits) < MaxCommits
                  /\ commits' = Append(commits, [tree |-> MergedTree(mb, refs[base], refs[head]),
                                                 parents |-> <<refs[base], refs[head]>>])
                  /\ refs' = [refs EXCEPT ![base] = Len(commits) + 1]
                  /\ calls' = [calls EXCEPT ![c] = [named EXCEPT !.result = "ok", !.merged = TRUE,
                                                      !.sha = Len(commits) + 1]]
  /\ UNCHANGED <<protected, staging, host>>

\* The older GitHubService.mergeBranches: one Gateway merge(base, head) request,
\* no validation and no catch: every Gateway error, the 409 of a conflict
\* included, reaches the caller as it is, and the result has no `merged` and no
\* `conflicted` property.
GH_mergeBranches(c, base, head, mb) ==
  /\ MayStart(c)
  /\ LET call == [IdleCall EXCEPT !.op = "mergeBranches", !.pc = "done", !.branch = base,
                                  !.gateway = TRUE] IN
     IF refs[base] = NoSha \/ refs[head] = NoSha
     THEN /\ calls' = [calls EXCEPT ![c] = [call EXCEPT !.result = "error", !.err = ApiErr(404)]]
          /\ UNCHANGED <<commits, refs>>
     ELSE IF refs[head] \in Ancestors(refs[base])
     THEN \* 204: no body, merge.data.sha throws a TypeError
          /\ calls' = [calls EXCEPT ![c] = [call EXCEPT !.result = "error", !.err = PlainError]]
          /\ UNCHANGED <<commits, refs>>
     ELSE /\ mb \in MergeBases(refs[base], refs[head])
          /\ IF MergeConflict(mb, refs[base], refs[head])
             THEN /\ calls' = [calls EXCEPT ![c] = [call EXCEPT !.result = "error", !.err = ApiErr(409)]]
                  /\ UNCHANGED <<commits, refs>>
             ELSE /\ Len(commits) < MaxCommits
                  /\ commits' = Append(commits, [tree |-> MergedTree(mb, refs[base], refs[head]),
                                                 parents |-> <<refs[base], refs[head]>>])
                  /\ refs' = [refs EXCEPT ![base] = Len(commits) + 1]
                  /\ calls' = [calls EXCEPT ![c] = [call EXCEPT !.result = "ok",
                                                      !.sha = Len(commits) + 1]]
  /\ UNCHANGED <<protected, staging, host>>

(***************************************************************************)
(* Staging: ProjectManager.state.projects and the change records.          *)
(***************************************************************************)
ProjectNames == {"p"}                \* the project the staging operations work on
LookupNames == {"p", "q"}            \* the names a caller may pass
Files == {"a"}                       \* files a directory scan may find
Undefined == "undefined"             \* a property that is not set
EmptySha == ""                       \* the '' handleClearCommittedChanges passes
CommitShas == {"s1", "s2"}           \* commit shas a caller may pass

NoProject ==
  [exists |-> FALSE, changes |-> <<>>, lastCommit |-> Undefined, repository |-> FALSE,
   sourceFiles |-> <<>>]

\* A Change as recordChange stores it: committed and commitSha are not set, and
\* `!change.committed` reads the missing flag as false.
NewChange(id) == [id |-> id, committed |-> FALSE, commitSha |-> Undefined]

NoResult == <<>>
NoError == "none"
NotFoundMessage == "not found"       \* `Project ${name} not found`
NoOp ==
  [op |-> "none", project |-> "p", sha |-> Undefined, ok |-> FALSE, result |-> NoResult,
   error |-> NoError]
Op(op, p, sha, ok, result) ==
  [op |-> op, project |-> p, sha |-> sha, ok |-> ok, result |-> result,
   error |-> IF ok THEN NoError ELSE NotFoundMessage]

\* project.changes.filter(change => !change.committed)
Pending(changes) == SelectSeq(changes, LAMBDA change : ~change.committed)

\* markChangesAsCommitted that sets the flag and forgets the sha.
MarkFlagOnly(changes, commitSha) ==
  [i \in DOMAIN changes |->
     IF changes[i].committed THEN changes[i] ELSE [changes[i] EXCEPT !.committed = TRUE]]

\* change.committed ? change : { ...change, committed: true, commitSha }
MarkUncommitted(changes, commitSha) ==
  [i \in DOMAIN changes |->
     IF changes[i].committed THEN changes[i]
     ELSE [changes[i] EXCEPT !.committed = TRUE, !.commitSha = commitSha]]

\* changes.map(change => ({ ...change, committed: true, commitSha: args.commit_sha }))
MarkAll(changes, commitSha) ==
  [i \in DOMAIN changes |-> [changes[i] EXCEPT !.committed = TRUE, !.commitSha = commitSha]]

\* { ...project, ...updates, changes: updates.changes ?? project.changes }
NoUpdates == [hasChanges |-> FALSE, changes |-> <<>>]
ProjectUpdates == { NoUpdates, [hasChanges |-> TRUE, changes |-> <<>>] }
Updated(project, updates) ==
  [project EXCEPT !.changes = IF updates.hasChanges THEN updates.changes ELSE project.changes]

\* A scan result: each file found, with no SourceFileChange yet.
Scan(found) == [f \in found |-> 0]

\* ProjectManager.createProject: state.projects[name] is assigned the new
\* project, whatever was there.
createProject(p, found) ==
  /\ projects' = [projects EXCEPT ![p] =
       [exists |-> TRUE, changes |-> <<>>, lastCommit |-> Undefined, repository |-> FALSE,
        sourceFiles |-> Scan(found)]]
  /\ lastOp' = Op("createProject", p, Undefined, TRUE, NoResult)
  /\ UNCHANGED <<remote, calls, host, nextId>>

\* A staging operation that throws `Project ... not found`.
NotFound(op, p, sha) ==
  /\ lastOp' = Op(op, p, sha, FALSE, NoResult)
  /\ UNCHANGED <<remote, calls, host, projects, nextId>>

\* ProjectManager.updateProject.
updateProject(p, updates) ==
  /\ IF ~projects[p].exists THEN NotFound("updateProject", p, Undefined)
     ELSE /\ projects' = [projects EXCEPT ![p] = Updated(projects[p], updates)]
          /\ lastOp' = Op("updateProject", p, Undefined, TRUE, NoResult)
          /\ UNCHANGED <<remote, calls, host, nextId>>

\* recordChange that starts a project when it finds none under the name.
recordChangeUpsert(p) ==
  /\ nextId <= MaxChanges
  /\ projects' = [projects EXCEPT ![p].exists = TRUE, ![p].changes = Append(@, NewChange(nextId))]
  /\ nextId' = nextId + 1
  /\ lastOp' = Op("recordChange", p, Undefined, TRUE, <<nextId>>)
  /\ UNCHANGED <<remote, calls, host>>

\* ProjectManager.recordChange (and the record_change tool, which passes
\* description, files and type only).
recordChange(p) ==
  /\ nextId <= MaxChanges
  /\ IF ~projects[p].exists THEN NotFound("recordChange", p, Undefined)
     ELSE /\ projects' = [projects EXCEPT ![p].changes = Append(@, NewChange(nextId))]
          /\ nextId' = nextId + 1
          /\ lastOp' = Op("recordChange", p, Undefined, TRUE, <<nextId>>)
          /\ UNCHANGED <<remote, calls, host>>

\* ProjectManager.recordSourceFileChange: a SourceFileChange on the file, and the
\* same change recorded through recordChange.
recordSourceFileChange(p, f) ==
  /\ nextId <= MaxChanges
  /\ IF ~projects[p].exists \/ f \notin DOMAIN projects[p].sourceFiles
     THEN NotFound("recordSourceFileChange", p, Undefined)
     ELSE /\ projects' = [projects EXCEPT ![p].sourceFiles[f] = @ + 1,
                                          ![p].changes = Append(@, NewChange(nextId))]
          /\ nextId' = nextId + 1
          /\ lastOp' = Op("recordSourceFileChange", p, Undefined, TRUE, <<nextId>>)
          /\ UNCHANGED <<remote, calls, host>>

\* ProjectManager.rescanSourceFiles: the files found replace sourceFiles; a file
\* that was tracked keeps its changes.
rescanSourceFiles(p, found) ==
  /\ IF ~projects[p].exists THEN NotFound("rescanSourceFiles", p, Undefined)
     ELSE /\ projects' = [projects EXCEPT ![p].sourceFiles =
               [f \in found |-> IF f \in DOMAIN projects[p].sourceFiles
                                THEN projects[p].sourceFiles[f] ELSE 0]]
          /\ lastOp' = Op("rescanSourceFiles", p, Undefined, TRUE, NoResult)
          /\ UNCHANGED <<remote, calls, host, nextId>>

\* ProjectManager.linkRepository.
linkRepository(p) ==
  /\ IF ~projects[p].exists THEN NotFound("linkRepository", p, Undefined)
     ELSE /\ projects' = [projects EXCEPT ![p].repository = TRUE]
          /\ lastOp' = Op("linkRepository", p, Undefined, TRUE, NoResult)
          /\ UNCHANGED <<remote, calls, host, nextId>>

\* ProjectManager.deleteProject.
deleteProject(p) ==
  /\ IF ~projects[p].exists THEN NotFound("deleteProject", p, Undefined)
     ELSE /\ projects' = [projects EXCEPT ![p] = NoProject]
          /\ lastOp' = Op("deleteProject", p, Undefined, TRUE, NoResult)
          /\ UNCHANGED <<remote, calls, host, nextId>>

\* ProjectManager.getPendingChanges.
getPendingChanges(p) ==
  /\ IF ~projects[p].exists THEN NotFound("getPendingChanges", p, Undefined)
     ELSE /\ lastOp' = Op("getPendingChanges", p, Undefined, TRUE, Pending(projects[p].changes))
          /\ UNCHANGED <<remote, calls, host, projects, nextId>>

\* The get_pending_changes tool: getProject, then its own filter.
get_pending_changes(p) ==
  /\ IF ~projects[p].exists THEN NotFound("get_pending_changes", p, Undefined)
     ELSE /\ lastOp' = Op("get_pending_changes", p, Undefined, TRUE, Pending(projects[p].changes))
          /\ UNCHANGED <<remote, calls, host, projects, nextId>>

\* The rows of table `changes` for a project with the given committed flag. A
\* table holds one row per recorded change; its rows have no order.
ChangeRows(p, committed) ==
  { projects[p].changes[i] : i \in { j \in DOMAIN projects[p].changes :
                                       projects[p].changes[j].committed = committed } }

\* The sequences that list every element of a set once.
Listings(S) ==
  { l \in [1..Cardinality(S) -> S] : \A i, j \in 1..Cardinality(S) : l[i] = l[j] => i = j }

\* DatabaseManager.getProjectChanges: SELECT ... WHERE project_id = ? AND
\* committed = ? GROUP BY c.id, with no ORDER BY: the rows come in an order the
\* query does not fix.
getProjectChanges(p, committed) ==
  /\ \E rows \in Listings(ChangeRows(p, committed)) :
       lastOp' = Op(IF committed THEN "getProjectChanges(committed)" ELSE "getProjectChanges",
                    p, Undefined, TRUE, rows)
  /\ UNCHANGED <<remote, calls, host, projects, nextId>>

\* ProjectManager.markChangesAsCommitted.
markChangesAsCommitted(p, commitSha) ==
  /\ IF ~projects[p].exists THEN NotFound("markChangesAsCommitted", p, commitSha)
     ELSE /\ projects' = [projects EXCEPT ![p].changes = MarkUncommitted(@, commitSha),
                                          ![p].lastCommit = commitSha]
          /\ lastOp' = Op("markChangesAsCommitted", p, commitSha, TRUE, NoResult)
          /\ UNCHANGED <<remote, calls, host, nextId>>

\* The clear_committed_changes tool: getProject, project.changes = map(...), then
\* updateProject(name, project) with the project itself as the update.
clear_committed_changes(p, commit_sha) ==
  /\ IF ~projects[p].exists THEN NotFound("clear_committed_changes", p, commit_sha)
     ELSE LET project == [projects[p] EXCEPT !.changes = MarkAll(@, commit_sha)] IN
          /\ projects' = [projects EXCEPT ![p] =
               Updated(project, [hasChanges |-> TRUE, changes |-> project.changes])]
          /\ lastOp' = Op("clear_committed_changes", p, commit_sha, TRUE, NoResult)
          /\ UNCHANGED <<remote, calls, host, nextId>>

\* ProjectManager.clearCommittedChanges as the specification gives it: every
\* uncommitted change of the project is marked committed with the sha, and
\* lastCommit is set to it.
clearCommittedChanges(p, commitSha) ==
  /\ IF ~projects[p].exists THEN NotFound("clearCommittedChanges", p, commitSha)
     ELSE /\ projects' = [projects EXCEPT ![p].changes = MarkUncommitted(@, commitSha),
                                          ![p].lastCommit = commitSha]
          /\ lastOp' = Op("clearCommittedChanges", p, commitSha, TRUE, NoResult)
          /\ UNCHANGED <<remote, calls, host, nextId>>

\* ProjectHandler.handleClearCommittedChanges: clearCommittedChanges(projectId, '').
handleClearCommittedChanges(p) == clearCommittedChanges(p, EmptySha)

(***************************************************************************)
(* ProjectManager.saveState: the state file and the saves in flight.       *)
(***************************************************************************)
NoSnapshot == [p \in LookupNames |-> NoProject]
NoFile == <<>>     \* the state file before the first saveState
IdleSave ==
  [op |-> "none", pc |-> "mkdir", project |-> "p", snapshot |-> NoSnapshot,
   change |-> 0,   \* recordChange: the id of the change it pushed
   marked |-> 0,   \* markChangesAsCommitted: the number of changes it went over
   landed |-> 0]   \* the position of its writeFile among those completed
MaySave(c) == c \notin DOMAIN saving /\ \A d \in Slots : d < c => d \in DOMAIN saving

\* recordChange up to its `await this.saveState()`: the change is pushed onto
\* the in-memory project, and saveState starts with its mkdir.
RC_recordChange(c, p) ==
  /\ MaySave(c) /\ nextId <= MaxChanges /\ projects[p].exists
  /\ projects' = [projects EXCEPT ![p].changes = Append(@, NewChange(nextId))]
  /\ nextId' = nextId + 1
  /\ saving' = saving @@ (c :> [IdleSave EXCEPT !.op = "recordChange", !.pc = "mkdir",
                                                   !.project = p, !.change = nextId])
  /\ UNCHANGED <<remote, calls, lastOp, disk, github, database>>

\* markChangesAsCommitted up to its `await this.saveState()`.
MC_markChangesAsCommitted(c, p, commitSha) ==
  /\ MaySave(c) /\ projects[p].exists
  /\ projects' = [projects EXCEPT ![p].changes = MarkUncommitted(@, commitSha),
                                  ![p].lastCommit = commitSha]
  /\ saving' = saving @@ (c :> [IdleSave EXCEPT !.op = "markChangesAsCommitted",
                                                   !.pc = "mkdir", !.project = p,
                                                   !.marked = Len(projects[p].changes)])
  /\ UNCHANGED <<remote, calls, nextId, lastOp, disk, github, database>>

\* saveState after its mkdir: JSON.stringify(this.state) is evaluated now, and
\* the writeFile is handed to the file system.
SS_mkdir(c) ==
  /\ c \in DOMAIN saving /\ saving[c].pc = "mkdir"
  /\ saving' = [saving EXCEPT ![c].pc = "writeFile", ![c].snapshot = projects]
  /\ UNCHANGED <<remote, calls, staging, disk, github, database>>

\* A writeFile that writes the state as it is when the write lands.
SS_writeFileCurrent(c) ==
  /\ c \in DOMAIN saving /\ saving[c].pc = "writeFile"
  /\ disk' = projects
  /\ saving' = [saving EXCEPT ![c].pc = "done",
                              ![c].landed = 1 + Cardinality({d \in DOMAIN saving : saving[d].pc = "done"})]
  /\ UNCHANGED <<remote, calls, staging, github, database>>

\* The writeFile completes: the file holds the snapshot, whole, and the call
\* returns. Writes in flight complete in any order.
SS_writeFile(c) ==
  /\ c \in DOMAIN saving /\ saving[c].pc = "writeFile"
  /\ disk' = saving[c].snapshot
  /\ saving' = [saving EXCEPT ![c].pc = "done",
                              ![c].landed = 1 + Cardinality({d \in DOMAIN saving : saving[d].pc = "done"})]
  /\ UNCHANGED <<remote, calls, staging, github, database>>

(***************************************************************************)
(* handleApiError applied to any error, in the contexts the services pass. *)
(***************************************************************************)
\* Contexts: those of CommitService and BranchService, those of
\* RepositoryService (the repository is named without its owner), and one that
\* names "repository owner/repo".
RepositoryContexts ==
  {"creating repository r", "cloning repository r", "deleting repository r",
   "getting repository o/r"}
Contexts == RepositoryContexts \cup {"creating commit in r", "getting branch b in o/r"}
\* context.includes('repository')
IncludesRepository(context) == context \in RepositoryContexts
\* context.match(/repository ([^/]+\/[^/]+)/)
MatchesOwnerRepo(context) == context = "getting repository o/r"
RepoContext(context) == IncludesRepository(context) /\ MatchesOwnerRepo(context)

\* The errors a catch block may hand over: a Gateway error with its status and
\* with or without a rate-limit message, a plain Error, an error of the services.
ApiErrors ==
  { [ApiErr(status) EXCEPT !.rateLimit = rl] : status \in {400, 401, 403, 404, 409, 422, 500},
                                              rl \in BOOLEAN }
    \cup {PlainError, BranchNotFoundError, GitHubError("INVALID_BRANCH", 400),
          GitHubError("API_ERROR", 404)}

\* A catch block calls handleApiError(error, context); what it throws is kept
\* with the arguments.
HandleApiErrorCall(error, context) ==
  /\ lastOp' = [Op("handleApiError", context, Undefined, FALSE,
                   <<error, handleApiError(error, RepoContext(context))>>)
                 EXCEPT !.error = NoError]
  /\ UNCHANGED <<remote, calls, projects, nextId, host>>

(***************************************************************************)
(* GitHub accounts: ProjectManager.state.accounts / selectedAccount and    *)
(* the server's githubService.                                             *)
(***************************************************************************)
OwnerNames == {"alice", "bob", "constructor"}   \* owners a caller may pass
EnvTokenOwners == {"alice"}     \* owners with a GITHUB_TOKEN_<owner> in the environment
InheritedKeys == {"constructor"}   \* names every object has a property for
NotConfigured == "GitHub service not configured"

\* this.state.accounts[owner] is truthy: the owner has an entry, or the name is
\* one the accounts object inherits a property for.
HasAccount(owner) == owner \in accounts \/ owner \in InheritedKeys

\* set_github_account: state.accounts[owner] = {owner, token}.
setGitHubAccount(owner) ==
  /\ accounts' = accounts \cup {owner}
  /\ lastOp' = Op("set_github_account", owner, Undefined, TRUE, NoResult)
  /\ UNCHANGED <<remote, calls, projects, nextId, persisted, selectedAccount, githubService,
                 database>>

\* ProjectManager.selectGitHubAccount.
selectGitHubAccount(owner) ==
  /\ HasAccount(owner)
  /\ selectedAccount' = owner

\* select_account: selectGitHubAccount, then a new GitHubService for the owner
\* if the environment has a token for it.
select_account(owner) ==
  /\ IF HasAccount(owner)
     THEN /\ selectGitHubAccount(owner)
          /\ githubService' = IF owner \in EnvTokenOwners THEN owner ELSE githubService
          /\ lastOp' = Op("select_account", owner, Undefined, TRUE, NoResult)
     ELSE /\ lastOp' = Op("select_account", owner, Undefined, FALSE, NoResult)
          /\ UNCHANGED <<selectedAccount, githubService>>
  /\ UNCHANGED <<remote, calls, projects, nextId, persisted, accounts, database>>

\* A tool that needs GitHub (create_commit, revert_commit, get_file, ...): refused
\* without a githubService, else run by the service, for the owner it is bound to.
create_commit ==
  /\ lastOp' = IF githubService = Undefined
               THEN [Op("create_commit", Undefined, Undefined, FALSE, NoResult)
                       EXCEPT !.error = NotConfigured]
               ELSE Op("create_commit", githubService, Undefined, TRUE, NoResult)
  /\ UNCHANGED <<remote, calls, projects, nextId, host>>

(***************************************************************************)
(* DatabaseManager.                                                        *)
(***************************************************************************)
\* Instances are numbered in the order of their construction.
NoInstance == 0
IdleInit == [op |-> "initialize", pc |-> "idle", own |-> NoInstance, returned |-> NoInstance,
             failed |-> FALSE]

\* Callers are alike: caller c + 1 makes its first call after caller c has; a
\* caller whose call has ended may call again.
MayInit(c) ==
  \/ c \notin DOMAIN initCalls /\ \A d \in Slots : d < c => d \in DOMAIN initCalls
  \/ c \in DOMAIN initCalls /\ initCalls[c].pc = "done"

SetInit(c, call) == (c :> call) @@ initCalls

\* initialize is called: with an instance held it returns that instance, else
\* it suspends at the await of mkdir.
DM_initialize(c) ==
  /\ MayInit(c)
  /\ initCalls' = SetInit(c,
       IF instance # NoInstance
       THEN [IdleInit EXCEPT !.pc = "done", !.returned = instance]
       ELSE [IdleInit EXCEPT !.pc = "mkdir"])
  /\ UNCHANGED <<remote, calls, staging, persisted, github, instance, constructed, verified>>

\* mkdir has resolved: DatabaseManager.instance = new DatabaseManager(dbPath),
\* without a second look at the instance held, and verifyAndCreateTables
\* starts on it.
DM_construct(c) ==
  /\ c \in DOMAIN initCalls /\ initCalls[c].pc = "mkdir"
  /\ constructed' = constructed + 1
  /\ instance' = constructed + 1
  /\ initCalls' = SetInit(c, [initCalls[c] EXCEPT !.pc = "verify", !.own = constructed + 1])
  /\ UNCHANGED <<remote, calls, staging, persisted, github, verified>>

\* verifyAndCreateTables of the instance the call constructed completes.
DM_verifyAndCreateTables(c) ==
  /\ c \in DOMAIN initCalls /\ initCalls[c].pc = "verify"
  /\ verified' = verified \cup {initCalls[c].own}
  /\ initCalls' = SetInit(c, [initCalls[c] EXCEPT !.pc = "count"])
  /\ UNCHANGED <<remote, calls, staging, persisted, github, instance, constructed>>

\* The count query is over (its failure is logged only):
\* return DatabaseManager.instance, the instance held now.
DM_return(c) ==
  /\ c \in DOMAIN initCalls /\ initCalls[c].pc = "count"
  /\ initCalls' = SetInit(c, [initCalls[c] EXCEPT !.pc = "done", !.returned = instance])
  /\ UNCHANGED <<remote, calls, staging, persisted, github, instance, constructed, verified>>

\* getInstance: throws `Database not initialized` when no instance is held.
DM_getInstance(c) ==
  /\ MayInit(c)
  /\ initCalls' = SetInit(c, [IdleInit EXCEPT !.op = "getInstance", !.pc = "done",
                                              !.returned = instance,
                                              !.failed = (instance = NoInstance)])
  /\ UNCHANGED <<remote, calls, staging, persisted, github, instance, constructed, verified>>

(***************************************************************************)
(* Initial state: an auto_init repository (one root commit on the default  *)
(* branch), no call issued, no project.                                    *)
(***************************************************************************)
InitRemote ==
  /\ commits = <<RootCommit>>
  /\ refs = [b \in BranchNames |-> IF b = defaultBranch THEN 1 ELSE NoSha]
  /\ protected = {}
  /\ calls = [c \in Slots |-> IdleCall]

\* A ProjectManager that has saved nothing yet, no account, no GitHub service,
\* no DatabaseManager.
InitHost ==
  /\ disk = NoFile
  /\ saving = <<>>
  /\ accounts = {}
  /\ selectedAccount = Undefined
  /\ githubService = Undefined
  /\ instance = NoInstance
  /\ constructed = 0
  /\ verified = {}
  /\ initCalls = <<>>

InitStaging ==
  /\ projects = [p \in LookupNames |-> NoProject]
  /\ nextId = 1
  /\ lastOp = NoOp
  /\ InitHost

Init == InitRemote /\ InitStaging

\* Concurrent createCommit invocations (and nothing else) on one repository.
NextCommit ==
  \/ \E c \in Slots, b \in BranchNames \cup {Omitted}, ch \in ChangeLists : CC_GetRef(c, b, ch)
  \/ \E c \in Slots : CC_Retry(c)
  \/ \E c \in Slots : CC_Blobs(c)
  \/ \E c \in Slots : CC_CreateCommit(c)
  \/ \E c \in Slots : CC_UpdateRef(c)
  \/ \E c \in Slots, s \in FaultStatuses : GatewayFault(c, s)

SpecCommit == Init /\ [][NextCommit]_vars

\* Every CommitService and BranchService operation, interleaved.
RepoChangeLists ==
  { <<Change("f", "delete", NoSource)>>, <<Change("g", "add", "src1")>> }
NextRepo ==
  \/ \E c \in Slots, b \in BranchNames, ch \in RepoChangeLists : CC_GetRef(c, b, ch)
  \/ \E c \in Slots : CC_Blobs(c)
  \/ \E c \in Slots : CC_CreateCommit(c)
  \/ \E c \in Slots : CC_UpdateRef(c)
  \/ \E c \in Slots, sha \in Shas, b \in BranchNames : RV_GetCommit(c, sha, b)
  \/ \E c \in Slots : RV_GetRef(c)
  \/ \E c \in Slots, peel \in BOOLEAN : RV_CreateCommit(c, peel)
  \/ \E c \in Slots : RV_UpdateRef(c)
  \/ \E c \in Slots, n \in BranchNames, src \in BranchNames \cup {Omitted}, pr \in BOOLEAN :
       CB_GetRef(c, n, src, pr)
  \/ \E c \in Slots : CB_CreateRef(c)
  \/ \E c \in Slots, granted \in BOOLEAN : CB_Protect(c, granted)
  \/ \E c \in Slots, b \in BranchNames : DB_Delete(c, b)
  \/ \E c \in Slots, base \in BranchNames, head \in BranchNames, mb \in Shas :
       MB_Merge(c, base, head, mb)
  \/ \E c \in Slots : GatewayFault(c, 500)

\* Repositories the services may find: the auto_init one; two branches that
\* changed different files; two branches that changed the same file; one
\* branch with two commits after the root.
Commit(tree, parents) == [tree |-> tree, parents |-> parents]
TreeOf(f, g) == [p \in Paths |-> IF p = "f" THEN f ELSE g]
Repositories ==
  { [commits |-> <<RootCommit>>,
     refs |-> [b \in BranchNames |-> IF b = defaultBranch THEN 1 ELSE NoSha]],
    [commits |-> <<RootCommit, Commit(TreeOf(2, Absent), <<1>>), Commit(TreeOf(1, 1), <<1>>)>>,
     refs |-> [b \in BranchNames |-> IF b = defaultBranch THEN 2 ELSE 3]],
    [commits |-> <<RootCommit, Commit(TreeOf(2, Absent), <<1>>), Commit(TreeOf(Absent, Absent), <<1>>)>>,
     refs |-> [b \in BranchNames |-> IF b = defaultBranch THEN 2 ELSE 3]],
    [commits |-> <<RootCommit, Commit(TreeOf(2, Absent), <<1>>), Commit(TreeOf(2, 1), <<2>>)>>,
     refs |-> [b \in BranchNames |-> IF b = defaultBranch THEN 3 ELSE NoSha]] }

InitRepo ==
  /\ \E r \in Repositories : commits = r.commits /\ refs = r.refs
  /\ protected = {}
  /\ calls = [c \in Slots |-> IdleCall]
  /\ InitStaging

SpecRepo == InitRepo /\ [][NextRepo]_vars

\* createCommit and revertCommit of CommitService and revertCommit of the older
\* GitHubService, interleaved, with mergeBranches to make merge commits.
NextRevert ==
  \/ \E c \in Slots, b \in BranchNames \cup {Omitted}, ch \in RepoChangeLists : CC_GetRef(c, b, ch)
  \/ \E c \in Slots : CC_Blobs(c)
  \/ \E c \in Slots : CC_CreateCommit(c)
  \/ \E c \in Slots : CC_UpdateRef(c)
  \/ \E c \in Slots, sha \in Shas, b \in BranchNames \cup {Omitted} : RV_GetCommit(c, sha, b)
  \/ \E c \in Slots : RV_GetRef(c)
  \/ \E c \in Slots, peel \in BOOLEAN : RV_CreateCommit(c, peel)
  \/ \E c \in Slots : RV_UpdateRef(c)
  \/ \E c \in Slots, sha \in Shas : GH_revertCommit(c, sha)
  \/ \E c \in Slots, base \in BranchNames, head \in BranchNames, mb \in Shas :
       MB_Merge(c, base, head, mb)
  \/ \E c \in Slots : GatewayFault(c, 500)

SpecRevert == InitRepo /\ [][NextRevert]_vars

\* The writers of a branch head, interleaved: createCommit and revertCommit of
\* CommitService, with mergeBranches and deleteBranch of BranchService as the
\* other writers.
ForwardChangeLists == { <<Change("g", "add", "src1")>> }
NextForward ==
  \/ \E c \in Slots, b \in BranchNames, ch \in ForwardChangeLists : CC_GetRef(c, b, ch)
  \/ \E c \in Slots : CC_Blobs(c)
  \/ \E c \in Slots : CC_CreateCommit(c)
  \/ \E c \in Slots : CC_UpdateRef(c)
  \/ \E c \in Slots, sha \in Shas, b \in BranchNames : RV_GetCommit(c, sha, b)
  \/ \E c \in Slots : RV_GetRef(c)
  \/ \E c \in Slots, peel \in BOOLEAN : RV_CreateCommit(c, peel)
  \/ \E c \in Slots : RV_UpdateRef(c)
  \/ \E c \in Slots, b \in BranchNames : DB_Delete(c, b)
  \/ \E c \in Slots, base \in BranchNames, head \in BranchNames, mb \in Shas :
       MB_Merge(c, base, head, mb)

SpecForward == InitRepo /\ [][NextForward]_vars

\* Concurrent callers of DatabaseManager.initialize and getInstance.
NextDatabase ==
  \/ \E c \in Slots : DM_initialize(c)
  \/ \E c \in Slots : DM_construct(c)
  \/ \E c \in Slots : DM_verifyAndCreateTables(c)
  \/ \E c \in Slots : DM_return(c)
  \/ \E c \in Slots : DM_getInstance(c)

SpecDatabase == Init /\ [][NextDatabase]_vars

\* The branch operations of BranchService and of the older GitHubService,
\* interleaved, with well-formed and empty branch names, and createCommit
\* called with an empty branch name.
CallerBranchNames == BranchNames \cup {EmptyName}
NextBranch ==
  \/ \E c \in Slots, n \in CallerBranchNames, src \in CallerBranchNames \cup {Omitted}, pr \in BOOLEAN :
       CB_GetRef(c, n, src, pr)
  \/ \E c \in Slots : CC_GetRef(c, EmptyName, <<>>)
  \/ \E c \in Slots : CB_CreateRef(c)
  \/ \E c \in Slots, granted \in BOOLEAN : CB_Protect(c, granted)
  \/ \E c \in Slots, b \in CallerBranchNames : DB_Delete(c, b)
  \/ \E c \in Slots, base \in CallerBranchNames, head \in CallerBranchNames, mb \in Shas :
       MB_Merge(c, base, head, mb)
  \/ \E c \in Slots, n \in BranchNames, refused \in BOOLEAN : GH_deleteBranch(c, n, refused)
  \/ \E c \in Slots, base \in BranchNames, head \in BranchNames, mb \in Shas :
       GH_mergeBranches(c, base, head, mb)
  \/ \E c \in Slots, n \in BranchNames, src \in BranchNames \cup {Omitted, EmptyName} :
       GH_createBranch_getRef(c, n, src)
  \/ \E c \in Slots : GH_createBranch_createRef(c)
  \/ \E c \in Slots, b \in CallerBranchNames, fault \in GetBranchFaults, rl \in BOOLEAN :
       GB_getBranch(c, b, fault, rl)
  \/ \E c \in Slots : GatewayFault(c, 500)

SpecBranch == InitRepo /\ [][NextBranch]_vars

\* The staging operations, one at a time (each runs to completion on the
\* in-memory state before the next request is handled).
NextStaging ==
  \/ \E p \in ProjectNames, found \in SUBSET Files : createProject(p, found)
  \/ \E p \in ProjectNames, u \in ProjectUpdates : updateProject(p, u)
  \/ \E p \in ProjectNames : recordChange(p)
  \/ \E p \in ProjectNames, f \in Files : recordSourceFileChange(p, f)
  \/ \E p \in ProjectNames, found \in SUBSET Files : rescanSourceFiles(p, found)
  \/ \E p \in ProjectNames : linkRepository(p)
  \/ \E p \in ProjectNames : deleteProject(p)
  \/ \E p \in ProjectNames : getPendingChanges(p)
  \/ \E p \in ProjectNames : get_pending_changes(p)
  \/ \E p \in ProjectNames, committed \in BOOLEAN : getProjectChanges(p, committed)
  \/ \E p \in ProjectNames, s \in CommitShas : markChangesAsCommitted(p, s)
  \/ \E p \in ProjectNames, s \in CommitShas : clear_committed_changes(p, s)
  \/ \E p \in ProjectNames : handleClearCommittedChanges(p)

SpecStaging == Init /\ [][NextStaging]_vars

\* Two project names, of which any may be unknown to the ProjectManager, and the
\* operations that create, delete, record, query and clear.
NextLookup ==
  \/ \E p \in LookupNames : createProject(p, {})
  \/ \E p \in LookupNames : deleteProject(p)
  \/ \E p \in LookupNames : recordChange(p)
  \/ \E p \in LookupNames : getPendingChanges(p)
  \/ \E p \in LookupNames : get_pending_changes(p)
  \/ \E p \in LookupNames, s \in CommitShas : markChangesAsCommitted(p, s)
  \/ \E p \in LookupNames, s \in CommitShas : clear_committed_changes(p, s)
  \/ \E p \in LookupNames : handleClearCommittedChanges(p)

SpecLookup == Init /\ [][NextLookup]_vars

\* The sha text of the root commit of the remote repository, a sha text that
\* names no commit there, and the remote commit a sha text names.
RootShaText == "c1"
ShaTexts == {RootShaText, "s1"}
CommitNamed(commitSha) == IF commitSha = RootShaText THEN 1 ELSE NoSha

\* A project is created, linked or not, changes are recorded and marked as
\* committed with whatever sha text the caller passes.
NextLink ==
  \/ \E p \in ProjectNames : createProject(p, {})
  \/ \E p \in ProjectNames : linkRepository(p)
  \/ \E p \in ProjectNames : recordChange(p)
  \/ \E p \in ProjectNames, s \in ShaTexts : markChangesAsCommitted(p, s)
  \/ \E p \in ProjectNames, s \in ShaTexts : clear_committed_changes(p, s)
  \/ \E p \in ProjectNames : handleClearCommittedChanges(p)

SpecLink == Init /\ [][NextLink]_vars

\* A project with its changes so far, and concurrent recordChange and
\* markChangesAsCommitted calls on it, each followed by its saveState.
SavedProjects ==
  { [NoProject EXCEPT !.exists = TRUE],
    [NoProject EXCEPT !.exists = TRUE, !.changes = <<NewChange(1)>>] }
InitSave ==
  /\ InitRemote
  /\ \E saved \in SavedProjects :
       /\ projects = [p \in LookupNames |-> IF p \in ProjectNames THEN saved ELSE NoProject]
       /\ nextId = Len(saved.changes) + 1
  /\ lastOp = NoOp
  /\ disk = projects
  /\ saving = <<>>
  /\ accounts = {} /\ selectedAccount = Undefined /\ githubService = Undefined
  /\ instance = NoInstance /\ constructed = 0 /\ verified = {}
  /\ initCalls = <<>>
NextSave ==
  \/ \E c \in Slots, p \in ProjectNames : RC_recordChange(c, p)
  \/ \E c \in Slots, p \in ProjectNames, s \in CommitShas : MC_markChangesAsCommitted(c, p, s)
  \/ \E c \in Slots : SS_mkdir(c)
  \/ \E c \in Slots : SS_writeFile(c)

SpecSave == InitSave /\ [][NextSave]_vars

NextApiError ==
  \E error \in ApiErrors, context \in Contexts : HandleApiErrorCall(error, context)

SpecApiError == Init /\ [][NextApiError]_vars

\* The account tools and a GitHub tool, on a server started with or without a
\* DEFAULT_OWNER that has a token.
InitAccount ==
  /\ InitRemote
  /\ projects = [p \in LookupNames |-> NoProject] /\ nextId = 1 /\ lastOp = NoOp
  /\ disk = NoFile /\ saving = <<>>
  /\ accounts = {} /\ selectedAccount = Undefined
  /\ githubService \in EnvTokenOwners \cup {Undefined}
  /\ instance = NoInstance /\ constructed = 0 /\ verified = {}
  /\ initCalls = <<>>
NextAccount ==
  \/ \E owner \in OwnerNames : setGitHubAccount(owner)
  \/ \E owner \in OwnerNames : select_account(owner)
  \/ create_commit

SpecAccount == InitAccount /\ [][NextAccount]_vars

(***************************************************************************)
(* Properties of CommitService.createCommit under concurrency.             *)
(***************************************************************************)
\* The createCommit calls that read head h of branch b and got as far as their
\* updateRef request without a Gateway fault.
Racers(b, h) ==
  { c \in Slots : /\ calls[c].op = "createCommit" /\ Done(c)
                  /\ calls[c].branch = b /\ calls[c].latestCommit = h
                  /\ calls[c].attempts = 1 /\ ~calls[c].fault }

UpdateRejectedError == GitHubError("API_ERROR", 422)

RetryUnopposed(c) ==
  /\ calls[c].op = "createCommit" /\ calls[c].pc = "updateRef"
  /\ calls[c].lostTo # NoSha
  /\ calls[c].latestCommit = calls[c].lostTo
  /\ refs[calls[c].branch] = calls[c].latestCommit

\* C2: when the loser of a race re-runs createCommit from getRef and no one else
\* writes meanwhile, the re-run succeeds, the branch head becomes the re-run's
\* commit, and that commit's only parent is the winner's commit: the winner's
\* commit stays in the history of the branch.
C2_RetrySucceeds ==
  [][\A c \in Slots :
       (RetryUnopposed(c) /\ calls'[c].pc = "done" /\ ~calls'[c].fault) =>
          /\ calls'[c].result = "ok"
          /\ refs'[calls[c].branch] = calls'[c].sha
          /\ commits'[calls'[c].sha].parents = <<calls[c].lostTo>>
          /\ calls[c].lostTo \in DOMAIN commits']_vars

\* C2 witness: a re-run has returned; the head is its commit, on the winner's.
C2_RetryDone ==
  \E c \in Slots :
    /\ calls[c].op = "createCommit" /\ Succeeded(c) /\ calls[c].lostTo # NoSha
    /\ refs[calls[c].branch] = calls[c].sha
    /\ commits[calls[c].sha].parents = <<calls[c].lostTo>>
    /\ \E d \in Slots \ {c} : Succeeded(d) /\ calls[d].sha = calls[c].lostTo

C4_RejectedUpdateNotRetried ==
  [][\A c \in Slots :
       ( /\ calls[c].op = "createCommit" /\ calls[c].pc = "updateRef"
         /\ refs[calls[c].branch] # calls[c].latestCommit
         /\ calls'[c] # calls[c] /\ ~calls'[c].fault ) =>
          /\ calls'[c].pc = "done" /\ calls'[c].result = "error"
          /\ calls'[c].err # NoErr
          /\ calls'[c].attempts = 1 /\ calls'[c].refReads = 1
          /\ refs' = refs]_vars

\* C4 witness: a call was refused once and the head is the other writer's commit.
C4_Refused ==
  \E c \in Slots : \E d \in Slots \ {c} :
    /\ calls[c].op = "createCommit" /\ Rejected(calls[c])
    /\ calls[c].attempts = 1 /\ calls[c].refReads = 1
    /\ calls[c].seen # calls[c].latestCommit
    /\ Succeeded(d) /\ calls[d].sha = calls[c].seen
    /\ refs[calls[c].branch] = calls[d].sha

\* C5: a createCommit with no changes fails only for a missing branch, a
\* Gateway fault or a lost race; when it returns, its commit has the tree of
\* the head it was built on, that head as only parent, and the branch head has
\* advanced to it (or beyond).
C5_EmptyChangesNoOpCommit ==
  \A c \in Slots :
    (calls[c].op = "createCommit" /\ Done(c) /\ calls[c].changes = <<>>) =>
      /\ calls[c].result = "error" =>
           \/ calls[c].fault
           \/ calls[c].refReads = 1 /\ calls[c].latestCommit = NoSha /\ calls[c].attempts = 0
           \/ calls[c].attempts = 1 /\ calls[c].seen # calls[c].latestCommit
      /\ calls[c].result = "ok" =>
           /\ commits[calls[c].sha].tree = commits[calls[c].latestCommit].tree
           /\ commits[calls[c].sha].parents = <<calls[c].latestCommit>>
           /\ calls[c].sha # calls[c].latestCommit
           /\ calls[c].seen = calls[c].latestCommit
           /\ calls[c].sha \in Ancestors(refs[calls[c].branch])

\* C5 witness: a createCommit with no changes returned on a head whose tree is
\* not the initial one, and the branch head is its commit.
C5_EmptyCommitMade ==
  \E c \in Slots :
    /\ calls[c].op = "createCommit" /\ Succeeded(c) /\ calls[c].changes = <<>>
    /\ refs[calls[c].branch] = calls[c].sha
    /\ commits[calls[c].sha].tree # RootTree
    /\ commits[calls[c].sha].tree = commits[calls[c].latestCommit].tree

(***************************************************************************)
(* Properties of the staging operations.                                   *)
(***************************************************************************)
\* The operations that mark the pending changes of a project as committed.
ClearOps == {"markChangesAsCommitted", "clear_committed_changes", "clearCommittedChanges"}
\* The operations that return the pending changes of a project.
PendingQueries == {"getPendingChanges", "get_pending_changes", "getProjectChanges"}

\* The step just taken is operation lastOp'.op and it did not throw.
Ran(ops) == lastOp'.op \in ops /\ lastOp'.ok

Ids(changes) == { changes[i].id : i \in DOMAIN changes }

\* C6: after a clear of project p with sha s completes, getPendingChanges(p) is
\* empty, and every record that was pending just before the call is still there
\* with committed = true and commitSha = s.
C6_ClearCommitsAllPending ==
  [][Ran(ClearOps) =>
       LET p == lastOp'.project
           before == projects[p].changes
           after == projects'[p].changes
       IN  /\ Pending(after) = <<>>
           /\ Len(after) = Len(before)
           /\ \A i \in DOMAIN before :
                ~before[i].committed =>
                   /\ after[i].id = before[i].id
                   /\ after[i].committed
                   /\ after[i].commitSha = lastOp'.sha]_vars

\* C6 witness: markChangesAsCommitted has just run on a project that had a
\* pending record and an already committed one; nothing is pending.
C6_Cleared ==
  /\ lastOp.op = "markChangesAsCommitted" /\ lastOp.ok
  /\ Pending(projects[lastOp.project].changes) = <<>>
  /\ \E i, j \in DOMAIN projects[lastOp.project].changes :
       /\ projects[lastOp.project].changes[i].commitSha = lastOp.sha
       /\ projects[lastOp.project].changes[j].commitSha # lastOp.sha

\* C7 as stated: a record that has committed = true keeps its committed flag and
\* its commitSha through every later recordChange and clear operation.
C7_CommittedRecordsUntouched ==
  [][Ran(ClearOps \cup {"recordChange"}) =>
       LET before == projects[lastOp'.project].changes
           after == projects'[lastOp'.project].changes
       IN  \A i \in DOMAIN before :
             before[i].committed =>
                /\ i \in DOMAIN after
                /\ after[i].committed
                /\ after[i].commitSha = before[i].commitSha]_vars

\* C8 as stated: no operation on an existing project other than deleteProject
\* removes a change record: the ids recorded before the step are there after.
C8_ChangesNeverRemoved ==
  [][(lastOp'.op # "deleteProject" /\ lastOp'.ok /\ projects[lastOp'.project].exists) =>
       Ids(projects[lastOp'.project].changes) \subseteq Ids(projects'[lastOp'.project].changes)]_vars

\* C9 as stated: after a clear of project p with sha s that did not throw,
\* through markChangesAsCommitted or the clear_committed_changes tool, the
\* project's lastCommit is s.
C9_ClearSetsLastCommit ==
  [][Ran({"markChangesAsCommitted", "clear_committed_changes"}) =>
       projects'[lastOp'.project].lastCommit = lastOp'.sha]_vars

\* C10 as stated: recordChange appends one record with committed = false, and a
\* query for the pending changes returns the uncommitted records in the
\* order they were recorded.
C10_PendingInInsertionOrder ==
  [][/\ Ran({"recordChange"}) =>
          /\ Len(projects'[lastOp'.project].changes) = Len(projects[lastOp'.project].changes) + 1
          /\ SubSeq(projects'[lastOp'.project].changes, 1, Len(projects[lastOp'.project].changes))
               = projects[lastOp'.project].changes
          /\ ~projects'[lastOp'.project].changes[Len(projects'[lastOp'.project].changes)].committed
     /\ Ran(PendingQueries) =>
          lastOp'.result = Pending(projects[lastOp'.project].changes)]_vars

\* The operations that look a project up by the name they are given.
LookupOps ==
  {"recordChange", "getPendingChanges", "get_pending_changes", "markChangesAsCommitted",
   "clear_committed_changes", "clearCommittedChanges"}

C12_CommitShaNamesRemoteCommit ==
  \A p \in LookupNames : \A i \in DOMAIN projects[p].changes :
    projects[p].changes[i].commitSha # Undefined =>
      /\ projects[p].repository
      /\ CommitNamed(projects[p].changes[i].commitSha) \in DOMAIN commits
      /\ \E b \in BranchNames :
           CommitNamed(projects[p].changes[i].commitSha) \in Ancestors(refs[b])

(***************************************************************************)
(* Properties of the branch operations.                                    *)
(***************************************************************************)
\* Caller c has this step called operation op (the call may already be over).
Called(c, op) == calls[c].op = "idle" /\ calls'[c].op = op

\* C13 as stated: deleteBranch of the default branch fails, exists or not,
\* protected or not, without a request to the Gateway, and the default branch
\* ref is still there afterwards.
C13_DefaultBranchNeverDeleted ==
  [][\A c \in Slots :
       (Called(c, "deleteBranch") /\ calls'[c].branch = defaultBranch
          /\ calls'[c].err # InvalidBranchError) =>
          /\ calls'[c].pc = "done" /\ calls'[c].result = "error"
          /\ ~calls'[c].gateway
          /\ refs' = refs]_vars

\* C14 as stated: a mergeBranches call that returns reports either
\* {merged: true, conflicted: false} with the base moved to the merge commit, or
\* {merged: false, conflicted: true} with every head left where it was; a call
\* that throws throws a typed error and moves no head; the Gateway's 409 is
\* never thrown.
C14_MergeOutcomes ==
  [][\A c \in Slots :
       Called(c, "mergeBranches") =>
         LET r == calls'[c] IN
         /\ r.pc = "done"
         /\ r.result = "ok" =>
              \/ r.merged /\ ~r.conflicted /\ refs'[r.branch] = r.sha /\ r.sha # refs[r.branch]
              \/ ~r.merged /\ r.conflicted /\ refs' = refs
         /\ r.result = "error" =>
              r.err.class \in GitHubErrorClasses /\ r.err.status # 409 /\ refs' = refs]_vars

\* Caller c's createBranch sends its createRef in this step.
CreatesRef(c) ==
  /\ calls[c].op = "createBranch" /\ calls[c].pc \in {"createRef", "legacyCreateRef"}
  /\ calls'[c].pc # calls[c].pc /\ ~calls'[c].fault

\* C15, amended: createBranch reads the head of fromBranch (the default branch
\* when fromBranch is omitted) and changes no ref while doing so; a missing
\* source ends the call with the Gateway's 404 whether or not name exists. Its
\* createRef then either puts name at the sha that was read, or, when name
\* exists by then, fails with the Gateway's 422 and leaves every ref as it was.
C15_CreateBranchAtSourceHead ==
  [][\A c \in Slots :
       /\ Called(c, "createBranch") =>
            LET r == calls'[c] IN
            /\ refs' = refs
            /\ r.pc # "done" => r.latestCommit = HeadOf(r.from) /\ r.latestCommit # NoSha
            /\ r.pc = "done" =>
                 /\ r.result = "error"
                 /\ r.err = InvalidBranchError \/ (r.err.status = 404 /\ HeadOf(r.from) = NoSha)
       /\ CreatesRef(c) =>
            LET call == calls[c] r == calls'[c] IN
            IF refs[call.branch] # NoSha
            THEN refs' = refs /\ r.pc = "done" /\ r.result = "error"
                 /\ r.err.status = 422
            ELSE refs' = [refs EXCEPT ![call.branch] = call.latestCommit]]_vars

\* A createBranch put a new ref at the head it read, and another createBranch was
\* turned down because the name existed.
C15_BranchCreatedAndRefused ==
  \E c, d \in Slots :
    /\ calls[c].op = "createBranch" /\ calls[c].result = "ok"
    /\ calls[c].sha # NoSha /\ \E b \in BranchNames \ {defaultBranch} : refs[b] = calls[c].sha
    /\ calls[d].op = "createBranch" /\ calls[d].result = "error"
    /\ calls[d].err.status = 422

\* C15 as stated: a createBranch whose name exists when it is called fails with
\* the ref-already-exists error.
C15_ExistingNameFailsRefExists ==
  [][\A c \in Slots :
       (Called(c, "createBranch") /\ calls'[c].pc = "done"
          /\ calls'[c].err # InvalidBranchError /\ refs[calls'[c].branch] # NoSha) =>
          calls'[c].err.status = 422]_vars

\* C16 as stated: when createBranch's protection request is over, granted or
\* not, the new branch is still at the source sha and createBranch succeeds.
C16_ProtectionBestEffort ==
  [][\A c \in Slots :
       (calls[c].op = "createBranch" /\ calls[c].pc = "protect" /\ calls'[c].pc = "done") =>
          /\ refs'[calls[c].branch] = refs[calls[c].branch]
          /\ calls'[c].result = "ok"]_vars

\* C17 as stated: a call handed an empty branch name (as the branch, the new
\* name or the source) fails with a validation error (status 400), has sent
\* nothing to the Gateway, and leaves the remote as it was.
C17_MalformedFailsBeforeGateway ==
  [][\A c \in Slots :
       (/\ calls[c].op = "idle" /\ calls'[c].op # "idle"
        /\ \/ calls'[c].branch = EmptyName
           \/ calls'[c].from = EmptyName
           \/ calls'[c].err = InvalidBranchError) =>
          /\ calls'[c].pc = "done" /\ calls'[c].result = "error"
          /\ calls'[c].err.class = "GitHubError" /\ calls'[c].err.status = 400
          /\ ~calls'[c].gateway
          /\ remote' = remote]_vars

(***************************************************************************)
(* Properties of revertCommit.                                             *)
(***************************************************************************)
HasParent(sha) == Exists(sha) /\ commits[sha].parents # <<>>
ParentTree(sha) == commits[commits[sha].parents[1]].tree

\* C18 as stated: the createCommit request of a revertCommit whose target has a
\* parent creates a commit with the tree of the target's first parent and the
\* head the call read as its only parent, and a revertCommit that returns has
\* created such a commit and moved the branch to it.
C18_RevertCommitShape ==
  [][\A c \in Slots :
       /\ (/\ calls[c].op = "revertCommit" /\ calls[c].pc = "createCommit"
           /\ calls'[c].pc # "createCommit" /\ ~calls'[c].fault
           /\ HasParent(calls[c].target)) =>
             /\ calls'[c].pc = "updateRef"
             /\ commits' = Append(commits, [tree |-> ParentTree(calls[c].target),
                                            parents |-> <<calls[c].latestCommit>>])
       /\ (/\ calls[c].op = "revertCommit" /\ calls[c].pc = "updateRef"
           /\ calls'[c].result = "ok") =>
             refs'[calls[c].branch] = calls'[c].sha
       /\ (Called(c, "revertCommit") /\ calls'[c].result = "ok" /\ HasParent(calls'[c].target)) =>
             LET r == calls'[c] IN
             /\ commits'[r.sha].tree = ParentTree(r.target)
             /\ commits'[r.sha].parents = <<refs[r.branch]>>
             /\ refs'[r.branch] = r.sha]_vars

\* Caller d's revertCommit, past its getRef, ends in this step, and not by a
\* Gateway fault.
RevertEnds(d) ==
  /\ calls[d].op = "revertCommit" /\ calls[d].pc \in {"createCommit", "updateRef"}
  /\ calls'[d].pc = "done" /\ ~calls'[d].fault

\* C19 as stated: when a revertCommit of the commit a createCommit returned,
\* called with that commit as the branch head, is over, the head of the branch
\* has the tree the head had before the createCommit.
C19_RevertUndoesCommit ==
  [][\A c, d \in Slots :
       (/\ calls[c].op = "createCommit" /\ calls[c].result = "ok"
        /\ RevertEnds(d)
        /\ calls[d].target = calls[c].sha /\ calls[d].branch = calls[c].branch
        /\ calls[d].latestCommit = calls[c].sha) =>
          commits[refs'[calls[d].branch]].tree = commits[calls[c].latestCommit].tree]_vars

\* C20 as stated: when a revertCommit whose target lies behind the head it read
\* is over, and nobody moved the branch meanwhile, it has succeeded and the head
\* of the branch has the tree of the target's first parent.
C20_RevertResetsTreeWholesale ==
  [][\A d \in Slots :
       (/\ RevertEnds(d)
        /\ HasParent(calls[d].target)
        /\ calls[d].target # calls[d].latestCommit
        /\ calls[d].target \in Ancestors(calls[d].latestCommit)
        /\ refs[calls[d].branch] = calls[d].latestCommit) =>
          /\ calls'[d].result = "ok"
          /\ commits[refs'[calls[d].branch]].tree = ParentTree(calls[d].target)]_vars

\* C21 as stated: the createCommit step of a revertCommit whose target has more
\* than one parent does not happen: the call ends with an error, no commit is
\* created and no ref moves.
C21_MergeCommitNotReverted ==
  [][\A d \in Slots :
       (/\ calls[d].op = "revertCommit" /\ calls[d].pc = "createCommit"
        /\ calls'[d].pc # "createCommit"
        /\ Len(commits[calls[d].target].parents) > 1) =>
          /\ calls'[d].pc = "done" /\ calls'[d].result = "error"
          /\ commits' = commits /\ refs' = refs]_vars

\* C22: a getBranch call ends at once and moves no ref; it throws
\* BranchNotFoundError exactly when the Gateway answered 404, throws another
\* typed error for every other Gateway failure, and for a found branch returns
\* the head the branch has.
C22_GetBranchOutcomes ==
  [][\A c \in Slots :
       Called(c, "getBranch") =>
         LET r == calls'[c] IN
         /\ r.pc = "done" /\ remote' = remote
         /\ ~r.gateway => r.result = "error" /\ r.err = InvalidBranchError
         /\ r.err.class = "BranchNotFoundError" <=> r.status = 404
         /\ (r.gateway /\ r.status \notin {200, 404}) =>
              /\ r.result = "error"
              /\ r.err.class \in GitHubErrorClasses \ {"BranchNotFoundError"}
         /\ r.status = 200 =>
              r.result = "ok" /\ r.sha = refs[r.branch] /\ r.sha # NoSha]_vars

\* One getBranch was answered 404 and threw BranchNotFoundError, another found
\* its branch.
C22_NotFoundAndFound ==
  \E c, d \in Slots :
    /\ calls[c].op = "getBranch" /\ calls[c].status = 404
    /\ calls[c].err.class = "BranchNotFoundError"
    /\ calls[d].op = "getBranch" /\ calls[d].result = "ok" /\ calls[d].sha = refs[calls[d].branch]

(***************************************************************************)
(* Properties of saveState.                                                *)
(***************************************************************************)
Landed == {c \in DOMAIN saving : saving[c].pc = "done"}
LastWriter == CHOOSE c \in Landed : \A d \in Landed : saving[d].landed <= saving[c].landed
\* The update of a completed call is in the project state `state`.
Holds(state, c) ==
  LET changes == state[saving[c].project].changes IN
  IF saving[c].op = "recordChange"
  THEN \E i \in 1..Len(changes) : changes[i].id = saving[c].change
  ELSE \A i \in 1..saving[c].marked : i <= Len(changes) /\ changes[i].committed

\* C23: the in-memory state holds the update of every call, while the state file
\* holds, whole, the snapshot of whichever writeFile completed last, whatever
\* the calls that completed before it had written.
C23_LastSnapshotWins ==
  /\ \A c \in DOMAIN saving : Holds(projects, c)
  /\ Landed # {} => disk = saving[LastWriter].snapshot

\* Both calls have completed successfully and the state file lacks the update
\* of one of them.
C23_LostUpdate ==
  /\ Landed = Slots
  /\ \E c \in Slots : ~Holds(disk, c)

(***************************************************************************)
(* Properties of the GitHub accounts.                                      *)
(***************************************************************************)
\* C24 as stated: once an account is selected, a GitHub tool is run by a
\* service bound to the selected owner.
C24_ServiceFollowsSelection ==
  [][(lastOp'.op = "create_commit" /\ selectedAccount # Undefined) =>
       lastOp'.ok /\ lastOp'.project = selectedAccount]_vars

\* C29 as stated: selectedAccount is unset or the owner of a registered account,
\* a select_account for an owner without an account fails and changes nothing,
\* and no account is ever removed.
C29_SelectedAccountRegistered ==
  [][/\ selectedAccount' = Undefined \/ selectedAccount' \in accounts'
     /\ accounts \subseteq accounts'
     /\ (lastOp'.op = "select_account" /\ lastOp'.project \notin accounts) =>
          ~lastOp'.ok /\ selectedAccount' = selectedAccount]_vars

(***************************************************************************)
(* Further properties of createCommit.                                     *)
(***************************************************************************)
\* C25: the getRef step of a createCommit records the head the branch has; its
\* createCommit step adds one commit whose only parent is that head; and when
\* its updateRef succeeds the branch is at that commit, which is the sha the
\* call returns.
C25_SingleParentAndReturnedHead ==
  [][\A c \in Slots :
       /\ (calls'[c].op = "createCommit" /\ calls[c].pc # "blobs" /\ calls'[c].pc = "blobs") =>
            calls'[c].latestCommit = refs[calls'[c].branch]
       /\ (calls[c].op = "createCommit" /\ calls[c].pc = "createCommit"
             /\ calls'[c].pc = "updateRef") =>
            /\ commits' = Append(commits, commits'[Len(commits')])
            /\ commits'[Len(commits')].parents = <<calls[c].latestCommit>>
            /\ calls'[c].sha = Len(commits')
       /\ (calls[c].op = "createCommit" /\ calls[c].pc = "updateRef"
             /\ calls'[c].result = "ok") =>
            /\ calls'[c].sha = calls[c].sha
            /\ refs' = [refs EXCEPT ![calls[c].branch] = calls[c].sha]]_vars

\* A createCommit returned a commit with the head it read as only parent, and
\* the branch is at that commit.
C25_CommitLanded ==
  \E c \in Slots :
    /\ calls[c].op = "createCommit" /\ calls[c].result = "ok"
    /\ commits[calls[c].sha].parents = <<calls[c].latestCommit>>
    /\ refs[calls[c].branch] = calls[c].sha

(***************************************************************************)
(* Properties of handleApiError.                                           *)
(***************************************************************************)
\* C26 as stated: handleApiError always throws; it throws an error of the
\* services as it is, UnauthorizedError for 401, RateLimitError for 403 with a
\* rate-limit message, RepositoryNotFoundError for 404 in a context that speaks
\* of a repository, and the generic GitHubError with the status otherwise.
C26_HandleApiErrorPrecedence ==
  lastOp.op = "handleApiError" =>
    LET error == lastOp.result[1]
        thrown == lastOp.result[2]
    IN  /\ thrown.class # NoErr.class
        /\ IF error.class \in GitHubErrorClasses THEN thrown = error
           ELSE IF error.status = 401 THEN thrown.class = "UnauthorizedError"
           ELSE IF error.status = 403 /\ error.rateLimit THEN thrown.class = "RateLimitError"
           ELSE IF error.status = 404 /\ IncludesRepository(lastOp.project)
                THEN thrown.class = "RepositoryNotFoundError"
           ELSE thrown = GitHubError("API_ERROR", error.status)

\* C27: whenever a createCommit or a revertCommit moves a branch, whatever the
\* other callers did meanwhile, the head the branch had is an ancestor of the
\* head it gets, so every commit reachable from the old head stays reachable.
C27_HeadMovesForward ==
  [][\A c \in Slots :
       (/\ calls[c].op \in {"createCommit", "revertCommit"}
        /\ calls[c].pc = "updateRef" /\ calls'[c].result = "ok") =>
          /\ refs'[calls[c].branch] # refs[calls[c].branch]
          /\ refs[calls[c].branch] \in Ancestors(refs'[calls[c].branch])
          /\ Ancestors(refs[calls[c].branch]) \subseteq Ancestors(refs'[calls[c].branch])
          /\ \A b \in BranchNames \ {calls[c].branch} : refs'[b] = refs[b]]_vars

\* A createCommit and a revertCommit have both moved a branch.
C27_BothMoved ==
  \E c, d \in Slots :
    /\ calls[c].op = "createCommit" /\ calls[c].result = "ok"
    /\ calls[d].op = "revertCommit" /\ calls[d].result = "ok" /\ calls[d].gateway
    /\ calls[d].sha # NoSha /\ \E b \in BranchNames : refs[b] = calls[d].sha

\* C28: a createCommit step taken with an add or modify that has no sourcePath,
\* and a createCommit step whose Gateway request fails before updateRef (the
\* getRef that finds no branch included), end the call with an error; no step
\* of a createCommit before its updateRef changes a branch ref.
C28_LacksSource(changes) ==
  \E i \in DOMAIN changes :
    changes[i].operation \in {"add", "modify"} /\ changes[i].sourcePath = NoSource
C28_FailsWithError(call) ==
  call.pc = "done" /\ call.result = "error" /\ call.err # NoErr /\ call.attempts = 0
C30_Singleton ==
  /\ constructed <= 1
  /\ \A c \in DOMAIN initCalls :
       /\ (initCalls[c].op = "initialize" /\ initCalls[c].pc = "done") =>
             /\ initCalls[c].returned = 1
             /\ initCalls[c].returned \in verified
       /\ (initCalls[c].op = "getInstance" /\ initCalls[c].returned = NoInstance) =>
             initCalls[c].failed

====
